---- MODULE Spec2Model ----
(***************************************************************************)
(* Session token lifecycle of the Pocket Traffic Lawyer frontend           *)
(* (frontend/src/lib/auth.ts): the token slot in localStorage, doRefresh,  *)
(* authorizedRequest, authLogin, authRegister and authLogout, as one       *)
(* browsing context runs them.  JavaScript is single threaded: a handler   *)
(* runs from one await to the next without interruption, so every action   *)
(* below is the code between two awaits.  The auth server is an opaque     *)
(* collaborator: each of its answers is a nondeterministic choice.         *)
(*                                                                         *)
(* On top of it, the AuthProvider of                                       *)
(* frontend/src/contexts/AuthContext.tsx: the user state, the refresh      *)
(* timer (scheduleRefresh), the effect that runs init and registers the    *)
(* storage listener, its cleanup, login, signup, logout and the listener,  *)
(* with another tab writing the shared slot.  Calls of the provider        *)
(* overlap freely: nothing in the code keeps a timeout, a page's api call  *)
(* or a storage event from starting while an earlier call awaits its       *)
(* answer, nor a second login, signup or logout from starting while the    *)
(* first awaits its own.                                                   *)
(*                                                                         *)
(* Spec is the token lifecycle alone (calls and logout, the provider not   *)
(* yet mounted), SpecAuth the same with logins and registrations, SpecCall *)
(* the calls with every request answered in the end.  The mounted provider *)
(* is explored in scenarios that differ in the operations the page         *)
(* performs: SpecCtx (login, logout and the timer), SpecTimer (logout and  *)
(* the timer), SpecLogin (SpecCtx with signup), SpecApp (api calls         *)
(* and the timer), SpecProfile (updateProfile and logout), SpecTabs (a tab *)
(* following another tab), SpecStored (a tab resuming over whatever the    *)
(* slot holds), SpecKeys (a tab told of writes to the slot and to the      *)
(* 'theme' key) and SpecInit (the effect, its cleanup and its re-run, with *)
(* init's lookup answered in the end).  SpecArm (every caller of           *)
(* scheduleRefresh) and SpecPage (everything that may touch a stored       *)
(* session) put the operations of those scenarios together, for a user who *)
(* performs up to MaxOps of them.                                          *)
(***************************************************************************)
EXTENDS Integers, Sequences, FiniteSets, TLC

\* ---------------------------------------------------------------- bounds
MaxIssued == 2     \* token pairs the server issues after the initial one
MaxTicks == 1      \* clock steps
MaxRuns == 2       \* runs of the AuthProvider's effect
MaxEvents == 1     \* storage events queued for the listener
MaxAuth == 2       \* login/register/logout requests in flight together
MaxOps == 2        \* operations of the user in a behaviour (SpecArm, SpecPage)

\* ------------------------------------------------------------- constants
DefaultMarginSec == 30     \* isAccessExpired(marginSec = 30)
MsPerSec == 1000           \* expires_in is in seconds, expires_at in ms
RefreshLeadMs == 30000     \* scheduleRefresh: expires_at - Date.now() - 30_000
MinDelayMs == 5000         \* scheduleRefresh: Math.max(..., 5_000)

\* The authorizedRequest calls of a behaviour: two, so that calls overlap.
Calls == {1, 2}
TickMs == 30 * MsPerSec           \* the clock advances in steps of 30 s
ExpiresInChoices == {20, 60}      \* lifetimes (s) the server declares
HttpStatuses == {200, 401, 500}   \* statuses of the refresh/login endpoints
CallStatuses == {200, 401}        \* statuses of the caller's own endpoint

\* ---------------------------------------------------------------- values
\* Tokens are opaque strings: token n of a kind is <<kind, n>>; a missing
\* or empty (falsy) token is <<>>.
NoTok == <<>>
AccessTok(n) == <<"access", n>>
RefreshTok(n) == <<"refresh", n>>

\* localStorage.getItem(TOKEN_KEY) === null
Null == [isnull |-> TRUE]
\* Text in the slot that JSON.parse rejects.
Corrupt == [corrupt |-> TRUE]

\* The user record (UserPublic) the server serves with token pair n.
UserPublic(n) == [id |-> n]

\* The body of a successful login/register/refresh answer (TokenResponse).
TokenResponse(n, e) ==
  [access_token |-> AccessTok(n), refresh_token |-> RefreshTok(n),
   expires_in |-> e, user |-> UserPublic(n)]

\* What a fetch() can end with: a response with a status (and, for a 2xx of
\* a token endpoint, a TokenResponse body), or a rejected promise.  A body
\* that fails to parse (res.json() rejecting) ends doRefresh/authLogin the
\* same way a rejected fetch does, and is the same outcome here.
NetErr == [kind |-> "neterr"]
Http(s) == [kind |-> "http", status |-> s]
HttpOk(data) == [kind |-> "http", status |-> 200, data |-> data]
IsOk(o) == o.kind = "http" /\ o.status >= 200 /\ o.status <= 299

VARIABLES
  store,    \* the raw value of localStorage['ptl_tokens'] (Null or a record)
  now,      \* Date.now(), in ms
  issued,   \* number of token pairs the server has issued so far
  pc,       \* pc[p]: where authorizedRequest call p is suspended
  req,      \* req[p]: the request call p has in flight
  ret,      \* ret[p]: what call p resolved with
  hist,     \* hist[p]: history of call p (observation only)
  apc,      \* apc[op]: calls of authLogin/authRegister/authLogout awaiting
            \* the answer to their request
  rejected, \* refresh tokens the server has rejected (observation only)
  ev,       \* the answer the last step received (observation only)
  mounted,  \* the AuthProvider's effect has run and is not cleaned up
  runs,     \* how many times the effect has run
  user,     \* the user state of the AuthProvider (Null or an identity)
  isLoading,\* the isLoading state of the AuthProvider
  sched,    \* refreshTimer.current and the timeouts pending in the browser
  who,      \* who[p]: the caller awaiting authorizedRequest call p
  got,      \* got[p]: the identity in the 200 body call p resolved with
  events,   \* storage events of the slot queued for this tab's listener
  obs,      \* what the provider's last step did (observation only)
  ops       \* operations the user has performed (counted in SpecArm, SpecPage)

\* The state of the AuthProvider and of the page under it.
cvars == <<mounted, runs, user, isLoading, sched, who, got, events, obs,
          ops>>

vars == <<store, now, issued, pc, req, ret, hist, apc, rejected, ev,
          mounted, runs, user, isLoading, sched, who, got, events, obs,
          ops>>

\* ------------------------------------------------------------- TokenStore
\* auth.ts 61-70.  The slot holds JSON text: what getStoredTokens returns
\* (the parsed record, or null for an empty slot and for text that does not
\* parse) and what it leaves in the slot (unparsable text is removed).
getStoredTokens(raw) == IF raw = Null \/ raw = Corrupt THEN Null ELSE raw

\* getStoredTokens whose catch returns null without removeItem.
StoreAfterReadKeeps(raw) == raw

\* auth.ts 66-68: what a read leaves in the slot.
StoreAfterRead(raw) == IF raw = Corrupt THEN Null ELSE raw

\* setStoredTokens with the lifetime taken as milliseconds.
setStoredTokensNoScale(res, t) ==
  [access_token |-> res.access_token,
   refresh_token |-> res.refresh_token,
   expires_at |-> t + res.expires_in]

\* auth.ts 72-80: the record written for a TokenResponse received at t.
setStoredTokens(res, t) ==
  [access_token |-> res.access_token,
   refresh_token |-> res.refresh_token,
   expires_at |-> t + res.expires_in * MsPerSec]

\* auth.ts 82-84
clearStoredTokens == Null

\* isAccessExpired comparing against the raw expiry, the margin ignored.
isAccessExpiredNoMargin(raw, t, marginSec) ==
  LET tk == getStoredTokens(raw) IN
  IF tk = Null THEN TRUE
  ELSE t > tk.expires_at

\* auth.ts 86-90
isAccessExpired(raw, t, marginSec) ==
  LET tk == getStoredTokens(raw) IN
  IF tk = Null THEN TRUE
  ELSE t > tk.expires_at - marginSec * MsPerSec

\* tokens?.refresh_token / tokens?.access_token (undefined is <<>>)
RefreshTokenOf(tk) == IF tk = Null THEN NoTok ELSE tk.refresh_token
AccessTokenOf(tk) == IF tk = Null THEN NoTok ELSE tk.access_token

\* auth.ts 110-114: the Authorization header, or none.
NoAuth == [authorization |-> FALSE]
buildAuthHeaders(token) ==
  IF token # NoTok THEN [authorization |-> TRUE, bearer |-> token] ELSE NoAuth

\* -------------------------------------------------------------- requests
NoReq == [url |-> "none"]
RefreshReq(tok) == [url |-> "refresh", refresh_token |-> tok]
InputReq(h) == [url |-> "input", headers |-> h]

\* ------------------------------------------------------------- doRefresh
\* auth.ts 94-95: doRefresh throws 'No refresh token' before any request.
doRefreshThrows(raw) == RefreshTokenOf(getStoredTokens(raw)) = NoTok

\* auth.ts 96-100: the request doRefresh sends.
doRefreshRequest(raw) == RefreshReq(RefreshTokenOf(getStoredTokens(raw)))

\* doRefresh that throws on a rejection without clearing the slot.
doRefreshStoreKeeps(raw, o, t) ==
  IF o.kind = "neterr" THEN raw
  ELSE IF ~IsOk(o) THEN raw
  ELSE setStoredTokens(o.data, t)

\* doRefresh that clears the slot on every failure, network errors too.
doRefreshStoreClearsOnError(raw, o, t) ==
  IF ~IsOk(o) THEN clearStoredTokens
  ELSE setStoredTokens(o.data, t)

\* doRefresh that returns the new tokens without writing them.
doRefreshStoreForgets(raw, o, t) ==
  IF o.kind = "neterr" THEN raw
  ELSE IF ~IsOk(o) THEN clearStoredTokens
  ELSE raw

\* auth.ts 101-107: the slot after doRefresh received answer o at time t.
doRefreshStore(raw, o, t) ==
  IF o.kind = "neterr" THEN raw
  ELSE IF ~IsOk(o) THEN clearStoredTokens
  ELSE setStoredTokens(o.data, t)

\* auth.ts 138: the condition under which a 401 is followed by a refresh.
ShouldRefreshOn401(status, retry, raw) ==
  status = 401 /\ ~retry /\ RefreshTokenOf(getStoredTokens(raw)) # NoTok

\* The _retry parameter of authorizedRequest: no caller in the repository
\* passes it, so it has its default in every call.
DefaultRetry == FALSE

\* ------------------------------------------------------------ the server
\* Answers of a token endpoint: a fresh pair (while the bound allows), a
\* non-success status, or a network failure.
TokenAnswers ==
  {NetErr} \cup {Http(s) : s \in HttpStatuses \ {200}}
  \cup (IF issued < MaxIssued
        THEN {HttpOk(TokenResponse(issued + 1, e)) : e \in ExpiresInChoices}
        ELSE {})
CallAnswers == {NetErr} \cup {Http(s) : s \in CallStatuses}

\* ------------------------------------------------------ observation only
NoEv == [op |-> "none"]
\* hist[p]: requests call p has dispatched and refreshes it has requested,
\* the status of its first response, how its refresh before the dispatch and
\* its refresh after a 401 ended, and the calls whose refresh attempt was in
\* flight together with p's latest one.
BlankHist ==
  [ndisp |-> 0, nref |-> 0, res1 |-> 0, preOut |-> "none",
   r401Out |-> "none", ovl |-> {}]

\* How a refresh ended, from its answer.
OutcomeOf(o) ==
  IF o.kind = "neterr" THEN "neterr" ELSE IF IsOk(o) THEN "ok" ELSE "rejected"

RefreshInFlight == {q \in Calls : req[q].url = "refresh"}

\* hist after call p sent a refresh request: p's attempt overlaps the
\* attempts in flight, and no longer the ones p overlapped before.
SentRefresh(h, p) ==
  [q \in Calls |->
     IF q = p THEN [h[q] EXCEPT !.ovl = RefreshInFlight \ {p}]
     ELSE IF q \in RefreshInFlight THEN [h[q] EXCEPT !.ovl = @ \cup {p}]
     ELSE [h[q] EXCEPT !.ovl = @ \ {p}]]

\* The outcome of the latest refresh of call p.
LastRefresh(p) ==
  IF hist[p].r401Out # "none" THEN hist[p].r401Out ELSE hist[p].preOut

\* ----------------------------------------------------- authorizedRequest
\* auth.ts 116-136, up to the first await: either the request of the
\* preemptive doRefresh, or the dispatch of the caller's request.
CallStart(p) ==
  /\ pc[p] = "idle"
  /\ LET tokens == getStoredTokens(store)
         h0 == [hist EXCEPT ![p] = BlankHist]
     IN
     IF tokens # Null /\ isAccessExpired(store, now, DefaultMarginSec)
     THEN IF doRefreshThrows(store)
          THEN \* doRefresh rejects, catch: tokens = null, dispatch
               LET r == InputReq(buildAuthHeaders(NoTok)) IN
               /\ pc' = [pc EXCEPT ![p] = "fetch1"]
               /\ req' = [req EXCEPT ![p] = r]
               /\ hist' = [h0 EXCEPT ![p].preOut = "notoken", ![p].ndisp = 1]
          ELSE /\ pc' = [pc EXCEPT ![p] = "refresh_pre"]
               /\ req' = [req EXCEPT ![p] = doRefreshRequest(store)]
               /\ hist' = [SentRefresh(h0, p) EXCEPT ![p].preOut = "pending",
                                                     ![p].nref = 1]
     ELSE LET r == InputReq(buildAuthHeaders(AccessTokenOf(tokens))) IN
          /\ pc' = [pc EXCEPT ![p] = "fetch1"]
          /\ req' = [req EXCEPT ![p] = r]
          /\ hist' = [h0 EXCEPT ![p].ndisp = 1]
  /\ store' = StoreAfterRead(store)
  /\ ev' = NoEv
  /\ UNCHANGED <<now, issued, ret, apc, rejected>>

\* The bookkeeping every answer of the refresh endpoint shares.
RefreshAnswered(p, o) ==
  /\ store' = doRefreshStore(store, o, now)
  /\ issued' = IF IsOk(o) THEN issued + 1 ELSE issued
  /\ rejected' = IF o.kind = "http" /\ ~IsOk(o)
                 THEN rejected \cup {req[p].refresh_token} ELSE rejected
  /\ ev' = IF IsOk(o) THEN [op |-> "refresh", data |-> o.data] ELSE NoEv

\* authorizedRequest without the try/catch around the preemptive doRefresh:
\* a failed refresh rejects the call.
RefreshPreResponseThrows(p) ==
  /\ pc[p] = "refresh_pre"
  /\ \E o \in TokenAnswers :
       /\ RefreshAnswered(p, o)
       /\ IF IsOk(o)
          THEN /\ pc' = [pc EXCEPT ![p] = "fetch1"]
               /\ req' = [req EXCEPT ![p] =
                            InputReq(buildAuthHeaders(o.data.access_token))]
               /\ ret' = ret
               /\ hist' = [hist EXCEPT ![p].preOut = "ok", ![p].ndisp = 1]
          ELSE /\ pc' = [pc EXCEPT ![p] = "done"]
               /\ req' = [req EXCEPT ![p] = NoReq]
               /\ ret' = [ret EXCEPT ![p] = [kind |-> "throw", of |-> "refresh"]]
               /\ hist' = [hist EXCEPT ![p].preOut = OutcomeOf(o)]
  /\ UNCHANGED <<now, apc>>

\* auth.ts 101-107 then 121-136: the preemptive refresh is answered; the
\* caller's request is dispatched with the refreshed token, or with none.
RefreshPreResponse(p) ==
  /\ pc[p] = "refresh_pre"
  /\ \E o \in TokenAnswers :
       LET tok == IF IsOk(o) THEN o.data.access_token ELSE NoTok
           r == InputReq(buildAuthHeaders(tok))
       IN
       /\ RefreshAnswered(p, o)
       /\ pc' = [pc EXCEPT ![p] = "fetch1"]
       /\ req' = [req EXCEPT ![p] = r]
       /\ hist' = [hist EXCEPT ![p].preOut = OutcomeOf(o), ![p].ndisp = 1]
  /\ UNCHANGED <<now, ret, apc>>

\* auth.ts 133-151: the first dispatch is answered.  A rejected fetch
\* rejects the call; a 401 with a refresh token stored starts doRefresh;
\* any other response is returned.
Fetch1Response(p) ==
  /\ pc[p] = "fetch1"
  /\ \E o \in CallAnswers :
       IF o.kind = "neterr"
       THEN /\ pc' = [pc EXCEPT ![p] = "done"]
            /\ req' = [req EXCEPT ![p] = NoReq]
            /\ ret' = [ret EXCEPT ![p] = [kind |-> "throw", of |-> "first"]]
            /\ hist' = hist
            /\ store' = store
       ELSE IF ShouldRefreshOn401(o.status, DefaultRetry, store)
       THEN \* doRefresh reads the slot in the same step: it cannot throw
            /\ store' = store
            /\ pc' = [pc EXCEPT ![p] = "refresh_401"]
            /\ req' = [req EXCEPT ![p] = doRefreshRequest(store)]
            /\ ret' = ret
            /\ hist' = [SentRefresh(hist, p) EXCEPT ![p].res1 = o.status,
                           ![p].r401Out = "pending", ![p].nref = @ + 1]
       ELSE \* the slot is read only when the status is 401 (and !_retry)
            /\ store' = IF o.status = 401 /\ ~DefaultRetry
                        THEN StoreAfterRead(store) ELSE store
            /\ pc' = [pc EXCEPT ![p] = "done"]
            /\ req' = [req EXCEPT ![p] = NoReq]
            /\ ret' = [ret EXCEPT ![p] =
                         [kind |-> "response", of |-> "first",
                          status |-> o.status]]
            /\ hist' = [hist EXCEPT ![p].res1 = o.status]
  /\ ev' = NoEv
  /\ UNCHANGED <<now, issued, apc, rejected>>

\* auth.ts 139-151: the refresh after a 401 is answered.  On success the
\* slot is read again and the request re-dispatched; otherwise the first
\* response is returned.  (The continuation of `await doRefresh()` is the
\* next microtask after setStoredTokens: nothing runs in between.)
Refresh401Response(p) ==
  /\ pc[p] = "refresh_401"
  /\ \E o \in TokenAnswers :
       /\ RefreshAnswered(p, o)
       /\ IF IsOk(o)
          THEN LET retryTokens == getStoredTokens(store')
                   r == InputReq(buildAuthHeaders(AccessTokenOf(retryTokens)))
               IN
               /\ pc' = [pc EXCEPT ![p] = "fetch2"]
               /\ req' = [req EXCEPT ![p] = r]
               /\ ret' = ret
               /\ hist' = [hist EXCEPT ![p].r401Out = "ok", ![p].ndisp = @ + 1]
          ELSE /\ pc' = [pc EXCEPT ![p] = "done"]
               /\ req' = [req EXCEPT ![p] = NoReq]
               /\ ret' = [ret EXCEPT ![p] =
                            [kind |-> "response", of |-> "first",
                             status |-> hist[p].res1]]
               /\ hist' = [hist EXCEPT ![p].r401Out = OutcomeOf(o)]
  /\ UNCHANGED <<now, apc>>

\* A retry that treats its own 401 like the first one (the retry made by
\* calling authorizedRequest again without _retry = true).
Fetch2ResponseAgain(p) ==
  /\ pc[p] = "fetch2"
  /\ \E o \in CallAnswers :
       IF o.kind = "http" /\ ShouldRefreshOn401(o.status, DefaultRetry, store)
       THEN /\ pc' = [pc EXCEPT ![p] = "refresh_401"]
            /\ req' = [req EXCEPT ![p] = doRefreshRequest(store)]
            /\ ret' = ret
            /\ hist' = [SentRefresh(hist, p) EXCEPT
                           ![p].r401Out = "pending", ![p].nref = @ + 1]
       ELSE /\ pc' = [pc EXCEPT ![p] = "done"]
            /\ req' = [req EXCEPT ![p] = NoReq]
            /\ ret' = [ret EXCEPT ![p] =
                         IF o.kind = "neterr"
                         THEN [kind |-> "throw", of |-> "retry"]
                         ELSE [kind |-> "response", of |-> "retry",
                               status |-> o.status]]
            /\ hist' = hist
  /\ ev' = NoEv
  /\ UNCHANGED <<store, now, issued, apc, rejected>>

\* A retry whose 401 is taken as the end of the session: the slot cleared.
Fetch2ResponseClears(p) ==
  /\ pc[p] = "fetch2"
  /\ \E o \in CallAnswers :
       /\ ret' = [ret EXCEPT ![p] =
                    IF o.kind = "neterr" THEN [kind |-> "throw", of |-> "retry"]
                    ELSE [kind |-> "response", of |-> "retry",
                          status |-> o.status]]
       /\ store' = IF o.kind = "http" /\ o.status = 401
                   THEN clearStoredTokens ELSE store
  /\ pc' = [pc EXCEPT ![p] = "done"]
  /\ req' = [req EXCEPT ![p] = NoReq]
  /\ ev' = NoEv
  /\ UNCHANGED <<now, issued, hist, apc, rejected>>

\* auth.ts 142-145: the retry is answered; whatever it is, it is the result.
Fetch2Response(p) ==
  /\ pc[p] = "fetch2"
  /\ \E o \in CallAnswers :
       ret' = [ret EXCEPT ![p] =
                 IF o.kind = "neterr" THEN [kind |-> "throw", of |-> "retry"]
                 ELSE [kind |-> "response", of |-> "retry",
                       status |-> o.status]]
  /\ pc' = [pc EXCEPT ![p] = "done"]
  /\ req' = [req EXCEPT ![p] = NoReq]
  /\ ev' = NoEv
  /\ UNCHANGED <<store, now, issued, hist, apc, rejected>>

NoRet == [kind |-> "none"]

\* The functions of auth.ts that send one request of their own and await
\* it.  Nothing keeps a second one from being called meanwhile.
AuthOps == {"login", "register", "logout"}
NoneAwaiting == [op \in AuthOps |-> 0]
InFlight == apc["login"] + apc["register"] + apc["logout"]

\* ------------------------------------- authLogin, authRegister, authLogout
\* auth.ts 155-160 / 167-172: the request is sent.
AuthStart(op) ==
  /\ InFlight < MaxAuth
  /\ apc' = [apc EXCEPT ![op] = @ + 1]
  /\ ev' = NoEv
  /\ UNCHANGED <<store, now, issued, pc, req, ret, hist, rejected>>

\* authLogin/authRegister that forget the stored session when they fail.
authTokenStoreClears(raw, o, t) ==
  IF IsOk(o) THEN setStoredTokens(o.data, t) ELSE clearStoredTokens

\* auth.ts 161-164 / 173-176: a non-success status or a failed fetch throws
\* and leaves the slot; a success writes the slot.
authTokenStore(raw, o, t) ==
  IF IsOk(o) THEN setStoredTokens(o.data, t) ELSE raw

\* The body text of a non-success answer: empty, or some message.
ErrorBodies == {"", "detail"}

\* auth.ts 161 / 173: the Error a failed authLogin/authRegister rejects
\* with: `(await res.text()) || 'Login failed'`; a rejected fetch rejects
\* the call with the error of fetch.
authError(op, o, text) ==
  IF o.kind = "neterr" THEN "fetch failed"
  ELSE IF text # "" THEN text
  ELSE IF op = "login" THEN "Login failed" ELSE "Register failed"

\* The awaited request of authLogin/authRegister is answered with o.
AuthTokenAnswered(op, o) ==
  /\ apc[op] > 0
  /\ store' = authTokenStore(store, o, now)
  /\ issued' = IF IsOk(o) THEN issued + 1 ELSE issued
  /\ ev' = IF IsOk(o) THEN [op |-> op, data |-> o.data] ELSE NoEv
  /\ apc' = [apc EXCEPT ![op] = @ - 1]
  /\ UNCHANGED <<now, pc, req, ret, hist, rejected>>

AuthTokenResponse(op) == \E o \in TokenAnswers : AuthTokenAnswered(op, o)

authLogin == AuthStart("login")
authLoginResponse == AuthTokenResponse("login")
authRegister == AuthStart("register")
authRegisterResponse == AuthTokenResponse("register")

\* auth.ts 185-199: with a refresh token stored the logout request is sent
\* and awaited; without one the slot is cleared at once.
authLogout ==
  /\ IF RefreshTokenOf(getStoredTokens(store)) # NoTok
     THEN /\ InFlight < MaxAuth
          /\ apc' = [apc EXCEPT !["logout"] = @ + 1]
          /\ store' = StoreAfterRead(store)
     ELSE /\ apc' = apc
          /\ store' = clearStoredTokens
  /\ ev' = NoEv
  /\ UNCHANGED <<now, issued, pc, req, ret, hist, rejected>>

\* What POST /api/auth/logout can end with: an ack, an error status, or a
\* rejected fetch.
LogoutAnswers == {NetErr} \cup {Http(s) : s \in HttpStatuses}

\* authLogout without the try/catch, clearing the slot only once the
\* server has acknowledged.
authLogoutStoreOnAck(raw, o) == IF IsOk(o) THEN clearStoredTokens ELSE raw

\* auth.ts 188-198: the answer is not looked at and a rejected fetch is
\* caught and ignored; clearStoredTokens() follows in every case.
authLogoutStore(raw, o) == clearStoredTokens

\* The awaited logout request is answered with o.
authLogoutAnswered(o) ==
  /\ apc["logout"] > 0
  /\ apc' = [apc EXCEPT !["logout"] = @ - 1]
  /\ store' = authLogoutStore(store, o)
  /\ ev' = NoEv
  /\ UNCHANGED <<now, issued, pc, req, ret, hist, rejected>>

authLogoutResponse == \E o \in LogoutAnswers : authLogoutAnswered(o)

\* ------------------------------------------------------------- the clock
Tick ==
  /\ now < MaxTicks * TickMs
  /\ now' = now + TickMs
  /\ ev' = NoEv
  /\ UNCHANGED <<store, issued, pc, req, ret, hist, apc, rejected>>

\* ------------------------------------------------- AuthProvider: values
\* refreshTimer.current === null
NoHandle == [isnull |-> TRUE]
\* A timeout handle, known by when it was set and for how long.
Handle(t, ms) == [at |-> t, delay |-> ms]
NoSched == [current |-> NoHandle, armed |-> {}]
NoObs == [op |-> "none"]
Max(a, b) == IF a >= b THEN a ELSE b

\* The delay without the floor of Math.max.
msUntilNoFloor(tokens, t) == tokens.expires_at - t - RefreshLeadMs

\* AuthContext.tsx 42: the delay of the timeout for a stored record.
msUntil(tokens, t) == Max(tokens.expires_at - t - RefreshLeadMs, MinDelayMs)

\* The cancellation without `refreshTimer.current = null`.
cancelRefreshKeepsHandle(sc) ==
  IF sc.current # NoHandle
  THEN [current |-> sc.current, armed |-> sc.armed \ {sc.current}]
  ELSE sc

\* AuthContext.tsx 36-39, 85-88, 119-122: if (refreshTimer.current)
\* { clearTimeout(refreshTimer.current); refreshTimer.current = null }
cancelRefresh(sc) ==
  IF sc.current # NoHandle
  THEN [current |-> NoHandle, armed |-> sc.armed \ {sc.current}]
  ELSE sc

\* scheduleRefresh() without the cancellation of lines 36-39.
scheduleRefreshNoCancel(sc, raw, t) ==
  LET tokens == getStoredTokens(raw) IN
  IF tokens = Null THEN sc
  ELSE LET h == Handle(t, msUntil(tokens, t)) IN
       [current |-> h, armed |-> sc.armed \cup {h}]

\* AuthContext.tsx 35-53: the timer state after scheduleRefresh() ran at
\* time t with raw in the slot.
scheduleRefresh(sc, raw, t) ==
  LET c == cancelRefresh(sc)
      tokens == getStoredTokens(raw)
  IN
  IF tokens = Null THEN c
  ELSE LET h == Handle(t, msUntil(tokens, t)) IN
       [current |-> h, armed |-> c.armed \cup {h}]

\* The identity the server knows the bearer of a request as: the user it
\* served together with that access token.
IdentityOf(r) ==
  IF r.url = "input" /\ r.headers.authorization
  THEN UserPublic(r.headers.bearer[2]) ELSE Null

\* ------------------------------------------------------ the specification
\* The slot as an earlier visit left it: empty, a session issued at time 0
\* (inside the margin already, or not), a record without refresh token, or
\* text that does not parse.
InitStores ==
  {Null, Corrupt}
  \cup {setStoredTokens(TokenResponse(0, e), 0) : e \in ExpiresInChoices}
  \cup {[access_token |-> AccessTok(0), refresh_token |-> NoTok,
         expires_at |-> 20 * MsPerSec]}

Init ==
  /\ store \in InitStores
  /\ now = 0
  /\ issued = 0
  /\ pc = [p \in Calls |-> "idle"]
  /\ req = [p \in Calls |-> NoReq]
  /\ ret = [p \in Calls |-> NoRet]
  /\ hist = [p \in Calls |-> BlankHist]
  /\ apc = NoneAwaiting
  /\ rejected = {}
  /\ ev = NoEv
  /\ mounted = FALSE
  /\ runs = 0
  /\ user = Null
  /\ isLoading = TRUE
  /\ sched = NoSched
  /\ who = [p \in Calls |-> "none"]
  /\ got = [p \in Calls |-> Null]
  /\ events = <<>>
  /\ obs = NoObs
  /\ ops = 0

\* The calls of authorizedRequest and authLogout, with no AuthProvider
\* mounted.
Next ==
  \/ (\E p \in Calls : CallStart(p)) /\ UNCHANGED cvars
  \/ (\E p \in Calls : RefreshPreResponse(p)) /\ UNCHANGED cvars
  \/ (\E p \in Calls : Fetch1Response(p)) /\ UNCHANGED cvars
  \/ (\E p \in Calls : Refresh401Response(p)) /\ UNCHANGED cvars
  \/ (\E p \in Calls : Fetch2Response(p)) /\ UNCHANGED cvars
  \/ authLogout /\ UNCHANGED cvars
  \/ authLogoutResponse /\ UNCHANGED cvars
  \/ Tick /\ UNCHANGED cvars

Spec == Init /\ [][Next]_vars

\* All the functions of auth.ts, authLogin and authRegister included, with
\* no AuthProvider mounted.
NextAuth ==
  \/ (\E p \in Calls : CallStart(p)) /\ UNCHANGED cvars
  \/ (\E p \in Calls : RefreshPreResponse(p)) /\ UNCHANGED cvars
  \/ (\E p \in Calls : Fetch1Response(p)) /\ UNCHANGED cvars
  \/ (\E p \in Calls : Refresh401Response(p)) /\ UNCHANGED cvars
  \/ (\E p \in Calls : Fetch2Response(p)) /\ UNCHANGED cvars
  \/ authLogin /\ UNCHANGED cvars
  \/ authLoginResponse /\ UNCHANGED cvars
  \/ authRegister /\ UNCHANGED cvars
  \/ authRegisterResponse /\ UNCHANGED cvars
  \/ authLogout /\ UNCHANGED cvars
  \/ authLogoutResponse /\ UNCHANGED cvars
  \/ Tick /\ UNCHANGED cvars

SpecAuth == Init /\ [][NextAuth]_vars

\* ----------------------------------------------------------- AuthProvider
\* AuthContext.tsx.  Every authorizedRequest call has a caller: init, the
\* timeout callback and the storage listener call authMe(), updateProfile
\* calls authUpdateProfile() (both on /api/auth/me, both answering with the
\* user record), the rest of the application calls the functions of
\* lib/api.ts ("app").
MeCallers == {"init", "timer", "storage", "profile"}

\* obs.op names the provider's last step; obs.gone tells how the provider's
\* session last ended ("no" after a login, a signup or a storage event
\* announcing a new record); obs.pre tells, for a step that cancels the
\* timer, what the timer was before it: armed, fired (the handle of a
\* timeout that has run), cancelled (by the step just before, which found
\* it set), or unset.
Obs(op, gone) == [op |-> op, gone |-> gone, pre |-> "none"]
Gone == IF obs = NoObs THEN "no" ELSE obs.gone
TimerWas(sc) ==
  IF sc.current = NoHandle
  THEN IF obs # NoObs /\ obs.pre \in {"armed", "fired", "cancelled"}
       THEN "cancelled" ELSE "unset"
  ELSE IF sc.current \in sc.armed THEN "armed" ELSE "fired"
Cancelled(op, gone) == [op |-> op, gone |-> gone, pre |-> TimerWas(sched)]

\* AuthContext.tsx 76-78, 92: the storage event the browser queues for this
\* tab's listener when another document of the origin left raw in the slot
\* (e.newValue is the text written, or null after removeItem).  The tab's
\* own setItem/removeItem (auth.ts 67, 79, 83) queue nothing for it: its
\* steps leave the queue as it is.
StorageEvent(raw) == IF raw = Null THEN "clear" ELSE "set"

\* The callers of authMe() (auth.ts 179-183).
AuthMeCallers == {"init", "timer", "storage"}

\* The caller of a finished call whose continuation is the next microtask:
\* authorizedRequest rejected (its fetch failed), or authMe() got a status
\* that is not ok (`if (!res.ok) throw new Error(...)`, nothing awaited).
\* Every other continuation awaits the body of the response (res.json() of
\* authMe, res.text() or res.json() of authUpdateProfile and of lib/api.ts),
\* which a later task delivers: other tasks run before it.
UrgentFor(p) ==
  /\ pc[p] = "done"
  /\ \/ ret[p].kind = "throw"
     \/ who[p] \in AuthMeCallers /\ got[p] = Null

Urgent == \E p \in Calls : UrgentFor(p)

\* A new task runs (a timeout, an answer from the network, an event, the
\* clock): no microtask is waiting.
TaskTurn == ~Urgent

\* The effect has run at least once.  What the clock and the other tabs did
\* before is in the initial state: the slot as found, at time 0.
Started == obs # NoObs

\* AuthContext.tsx 55-99, 132-137: the provider's effect has run and has
\* not been cleaned up, so its listener is registered and the components
\* under it call login, signup, logout, updateProfile and lib/api.ts.
Ready == mounted /\ TaskTurn

\* The continuation of call p's caller runs: as the next microtask, or in
\* the task that delivers the body, which waits for the microtasks.
Settles(p) == pc[p] = "done" /\ (UrgentFor(p) \/ TaskTurn)

\* Calls bounds the calls in flight; a call takes the lowest free slot.
FreeSlot(p) == pc[p] = "idle" /\ \A q \in Calls : pc[q] = "idle" => p <= q

\* Call p is handed to caller w.
StartFor(p, w) ==
  /\ FreeSlot(p)
  /\ CallStart(p)
  /\ who' = [who EXCEPT ![p] = w]

\* The call slot of a call whose caller has taken the result.
Release(p) ==
  /\ pc' = [pc EXCEPT ![p] = "idle"]
  /\ ret' = [ret EXCEPT ![p] = NoRet]
  /\ hist' = [hist EXCEPT ![p] = BlankHist]
  /\ who' = [who EXCEPT ![p] = "none"]
  /\ got' = [got EXCEPT ![p] = Null]
  /\ ev' = NoEv
  /\ UNCHANGED <<now, issued, req, apc, rejected>>

\* A step of authorizedRequest call p inside the provider.  GET
\* /api/auth/me answers 200 only to a request that carries a bearer token,
\* and its body is the identity of that token.
Answered(p) ==
  LET ok == /\ pc'[p] = "done" /\ ret'[p].kind = "response"
            /\ ret'[p].status = 200
  IN
  /\ TaskTurn
  /\ (ok /\ who[p] \in MeCallers) => req[p].headers.authorization
  /\ got' = [got EXCEPT ![p] =
               IF ok /\ who[p] \in MeCallers THEN IdentityOf(req[p]) ELSE Null]
  /\ obs' = Obs("step", IF /\ req[p].url = "refresh"
                            /\ LastRefresh(p)' = "rejected"
                         THEN "rejected" ELSE Gone)
  /\ UNCHANGED events
  /\ UNCHANGED <<mounted, runs, user, isLoading, sched, who>>

refreshPreAnswered(p) == RefreshPreResponse(p) /\ Answered(p)
fetch1Answered(p) == Fetch1Response(p) /\ Answered(p)
refresh401Answered(p) == Refresh401Response(p) /\ Answered(p)
fetch2Answered(p) == Fetch2Response(p) /\ Answered(p)

\* lib/api.ts: a call of the application (chat, history, admin).
apiCall(p) ==
  /\ Ready
  /\ StartFor(p, "app")
  /\ obs' = Obs("step", Gone)
  /\ UNCHANGED events
  /\ UNCHANGED <<mounted, runs, user, isLoading, sched, got>>

apiReturns(p) ==
  /\ Settles(p) /\ who[p] = "app"
  /\ Release(p)
  /\ obs' = Obs("step", Gone)
  /\ UNCHANGED <<store, mounted, runs, user, isLoading, sched, events>>

\* AuthContext.tsx 55-72, 92: the effect runs (at mount, and again after a
\* cleanup when React re-runs it): init() up to `await authMe()`, and the
\* listener registered.
init ==
  /\ ~mounted
  /\ runs < MaxRuns
  /\ mounted' = TRUE
  /\ runs' = runs + 1
  /\ IF getStoredTokens(store) # Null
     THEN /\ \E p \in Calls : StartFor(p, "init")
          /\ isLoading' = TRUE
          /\ UNCHANGED user
     ELSE /\ user' = Null
          /\ isLoading' = FALSE
          /\ store' = StoreAfterRead(store)
          /\ ev' = NoEv
          /\ UNCHANGED <<now, issued, pc, req, ret, hist, apc, rejected, who>>
  /\ obs' = Obs("step", Gone)
  /\ UNCHANGED events
  /\ UNCHANGED <<sched, got>>

\* init() with setIsLoading(false) at the end of the try block, not in a
\* finally: a failed authMe() leaves the provider loading.
initSettledNoFinally(p) ==
  /\ Settles(p) /\ who[p] = "init"
  /\ Release(p)
  /\ IF got[p] # Null
     THEN /\ user' = got[p]
          /\ sched' = scheduleRefresh(sched, store, now)
          /\ store' = StoreAfterRead(store)
          /\ isLoading' = FALSE
     ELSE /\ user' = Null
          /\ UNCHANGED <<sched, store, isLoading>>
  /\ obs' = Obs(IF got[p] # Null THEN "initSettled" ELSE "step", Gone)
  /\ UNCHANGED events
  /\ UNCHANGED <<mounted, runs>>

\* AuthContext.tsx 62-70: authMe() of init() settled.
initSettled(p) ==
  /\ Settles(p) /\ who[p] = "init"
  /\ Release(p)
  /\ IF got[p] # Null
     THEN /\ user' = got[p]
          /\ sched' = scheduleRefresh(sched, store, now)
          /\ store' = StoreAfterRead(store)
     ELSE /\ user' = Null
          /\ UNCHANGED <<sched, store>>
  /\ isLoading' = FALSE
  /\ obs' = Obs(IF got[p] # Null THEN "initSettled" ELSE "step", Gone)
  /\ UNCHANGED events
  /\ UNCHANGED <<mounted, runs>>

\* AuthContext.tsx 127: `await authUpdateProfile(data)`.
updateProfile(p) ==
  /\ Ready
  /\ StartFor(p, "profile")
  /\ obs' = Obs("step", Gone)
  /\ UNCHANGED events
  /\ UNCHANGED <<mounted, runs, user, isLoading, sched, got>>

\* AuthContext.tsx 128: setUser(updated); a failed update throws.
profileSettled(p) ==
  /\ Settles(p) /\ who[p] = "profile"
  /\ Release(p)
  /\ user' = IF got[p] # Null THEN got[p] ELSE user
  /\ obs' = Obs("step", Gone)
  /\ UNCHANGED <<store, mounted, runs, isLoading, sched, events>>

\* AuthContext.tsx 103 / 110: `await authLogin(...)` / `await authRegister`.
login ==
  /\ Ready
  /\ authLogin
  /\ obs' = Obs("step", Gone)
  /\ UNCHANGED <<mounted, runs, user, isLoading, sched, who, got, events>>

signup ==
  /\ Ready
  /\ authRegister
  /\ obs' = Obs("step", Gone)
  /\ UNCHANGED <<mounted, runs, user, isLoading, sched, who, got, events>>

\* What login()/signup() rejected with, as their caller sees it.
Threw(op, o, text) ==
  [op |-> "threw", gone |-> Gone, pre |-> "none", of |-> op,
   answer |-> o, error |-> authError(op, o, text)]

\* AuthContext.tsx 104-105 / 111-112: setUser(res.user); scheduleRefresh().
\* A rejected authLogin/authRegister rejects login()/signup() and leaves
\* the provider as it was.
Entered(step, op, o, text) ==
  /\ TaskTurn
  /\ IF IsOk(o)
     THEN /\ user' = o.data.user
          /\ sched' = scheduleRefresh(sched, store', now)
          /\ obs' = Cancelled(step, "no")
     ELSE /\ UNCHANGED <<user, sched>>
          /\ obs' = Threw(op, o, text)
  /\ UNCHANGED events
  /\ UNCHANGED <<mounted, runs, isLoading, who, got>>

loginSettled ==
  \E o \in TokenAnswers : \E text \in ErrorBodies :
     AuthTokenAnswered("login", o) /\ Entered("loginSettled", "login", o, text)
signupSettled ==
  \E o \in TokenAnswers : \E text \in ErrorBodies :
     /\ AuthTokenAnswered("register", o)
     /\ Entered("signupSettled", "register", o, text)

\* logout() went on without a logout request.
Unsent == [kind |-> "unsent"]

\* AuthContext.tsx 118-122: setUser(null) and the timer cancelled.  (o, the
\* answer authLogout() got, is kept for observation only.)
LoggedOut(o) ==
  /\ user' = Null
  /\ sched' = cancelRefresh(sched)
  /\ obs' = [op |-> "logoutSettled", gone |-> "logout",
             pre |-> TimerWas(sched), answer |-> o]

\* AuthContext.tsx 116-117: `await authLogout()`; with no refresh token
\* stored authLogout() awaits nothing and logout() goes on at once.
logout ==
  /\ Ready
  /\ authLogout
  /\ IF apc' = apc
     THEN LoggedOut(Unsent)
     ELSE /\ UNCHANGED <<user, sched>>
          /\ obs' = Obs("step", Gone)
  /\ UNCHANGED events
  /\ UNCHANGED <<mounted, runs, isLoading, who, got>>

logoutSettled ==
  \E o \in LogoutAnswers :
     /\ TaskTurn
     /\ authLogoutAnswered(o)
     /\ LoggedOut(o)
     /\ UNCHANGED events
     /\ UNCHANGED <<mounted, runs, isLoading, who, got>>

\* AuthContext.tsx 43-44: the timeout fires and its callback calls authMe().
\* The callback leaves refreshTimer.current as it is.
timerFires(h, p) ==
  /\ TaskTurn
  /\ h \in sched.armed
  /\ now >= h.at + h.delay
  /\ StartFor(p, "timer")
  /\ sched' = [sched EXCEPT !.armed = @ \ {h}]
  /\ obs' = Obs("fire", Gone)
  /\ UNCHANGED events
  /\ UNCHANGED <<mounted, runs, user, isLoading, got>>

\* The callback with scheduleRefresh() at the end of the try block, not in
\* a finally: a failed authMe() ends the chain of timeouts.
timerSettledNoFinally(p) ==
  /\ Settles(p) /\ who[p] = "timer"
  /\ Release(p)
  /\ IF got[p] # Null
     THEN /\ sched' = scheduleRefresh(sched, store, now)
          /\ store' = StoreAfterRead(store)
     ELSE UNCHANGED <<sched, store>>
  /\ obs' = Obs(IF got[p] # Null THEN "timerSettled" ELSE "timerFailed", Gone)
  /\ UNCHANGED events
  /\ UNCHANGED <<mounted, runs, user, isLoading>>

\* AuthContext.tsx 45-51: authMe() of the callback settled either way;
\* finally scheduleRefresh().
timerSettled(p) ==
  /\ Settles(p) /\ who[p] = "timer"
  /\ Release(p)
  /\ sched' = scheduleRefresh(sched, store, now)
  /\ store' = StoreAfterRead(store)
  /\ obs' = Obs(IF got[p] # Null THEN "timerSettled" ELSE "timerFailed", Gone)
  /\ UNCHANGED events
  /\ UNCHANGED <<mounted, runs, user, isLoading>>

\* Another tab of the same origin writes the slot (its own login, signup or
\* refresh): this tab's listener gets a storage event with a newValue.  At
\* most MaxEvents events wait for the listener.
otherTabWrites ==
  /\ Started /\ TaskTurn
  /\ Len(events) < MaxEvents
  /\ issued < MaxIssued
  /\ \E e \in ExpiresInChoices :
       store' = setStoredTokens(TokenResponse(issued + 1, e), now)
  /\ issued' = issued + 1
  /\ events' = Append(events, StorageEvent(store'))
  /\ ev' = NoEv
  /\ obs' = Obs("step", Gone)
  /\ UNCHANGED <<now, pc, req, ret, hist, apc, rejected,
                 mounted, runs, user, isLoading, sched, who, got>>

\* Another tab removes the slot (its logout, or a refresh of its own that
\* was rejected): a storage event without newValue.
otherTabClears ==
  /\ Started /\ TaskTurn
  /\ Len(events) < MaxEvents
  /\ store # Null
  /\ store' = Null
  /\ events' = Append(events, StorageEvent(store'))
  /\ ev' = NoEv
  /\ obs' = Obs("step", Gone)
  /\ UNCHANGED <<now, issued, pc, req, ret, hist, apc, rejected,
                 mounted, runs, user, isLoading, sched, who, got>>

\* auth.ts 59: TOKEN_KEY.
TOKEN_KEY == "ptl_tokens"

\* A listener that takes every storage event for an event of the slot.
eventKeyAny(e) == TOKEN_KEY

\* e.key of a queued storage event: "set" and "clear" are events of the
\* slot, "theme" is the event of localStorage.setItem('theme', ...).
eventKey(e) == IF e = "theme" THEN "theme" ELSE TOKEN_KEY

\* e.newValue of a queued storage event is present (setItem) or null
\* (removeItem).
hasNewValue(e) == e # "clear"

\* auth.ts 285-287 (useTheme) in another tab: localStorage.setItem('theme',
\* theme), which this tab is told of by a storage event with key 'theme'.
otherTabSetsTheme ==
  /\ Started /\ TaskTurn
  /\ Len(events) < MaxEvents
  /\ events' = Append(events, "theme")
  /\ obs' = Obs("step", Gone)
  /\ UNCHANGED <<store, now, issued, pc, req, ret, hist, apc, rejected, ev,
                 mounted, runs, user, isLoading, sched, who, got>>

\* AuthContext.tsx 92-94: the storage event reaches onStorage between
\* addEventListener and removeEventListener.
listening == mounted

\* The browser fires the next storage event.  AuthContext.tsx 76-91:
\* onStorage, if registered.  For key 'ptl_tokens' with a newValue: authMe()
\* is called (its first await is reached), then scheduleRefresh().
\* Without: setUser(null) and the timer cancelled.  For any other key the
\* listener returns.
onStorage ==
  /\ TaskTurn
  /\ events # <<>>
  /\ events' = Tail(events)
  /\ IF listening /\ eventKey(Head(events)) = TOKEN_KEY
     THEN IF hasNewValue(Head(events))
          THEN /\ \E p \in Calls : StartFor(p, "storage")
               /\ sched' = scheduleRefresh(sched, store', now)
               /\ obs' = Obs("onStorageSet", "no")
               /\ UNCHANGED user
          ELSE /\ user' = Null
               /\ sched' = cancelRefresh(sched)
               /\ obs' = Cancelled("onStorageClear", "cleared")
               /\ UNCHANGED <<store, now, issued, pc, req, ret, hist, apc,
                              rejected, ev, who>>
     ELSE /\ obs' = Obs(IF listening THEN "onStorageOther" ELSE "step", Gone)
          /\ UNCHANGED <<store, now, issued, pc, req, ret, hist, apc,
                         rejected, ev, who, user, sched>>
  /\ UNCHANGED <<mounted, runs, isLoading, got>>

\* AuthContext.tsx 93-98: the effect's cleanup (the provider unmounts, or
\* React.StrictMode of main.tsx runs cleanup and effect once more):
\* removeEventListener and clearTimeout(refreshTimer.current), the handle
\* left in refreshTimer.current.  Calls in flight go on.
cleanup ==
  /\ Ready
  /\ mounted' = FALSE
  /\ UNCHANGED runs
  /\ sched' = [sched EXCEPT !.armed = @ \ {sched.current}]
  /\ obs' = Obs("cleanup", Gone)
  /\ UNCHANGED <<store, now, issued, pc, req, ret, hist, apc, rejected, ev,
                 user, isLoading, who, got, events>>

\* The listener without .then(setUser): the lookup's answer is dropped.
storageSettledKeeps(p) ==
  /\ Settles(p) /\ who[p] = "storage"
  /\ Release(p)
  /\ user' = IF got[p] # Null THEN user ELSE Null
  /\ obs' = Obs("storageSettled", Gone)
  /\ UNCHANGED <<store, mounted, runs, isLoading, sched, events>>

\* AuthContext.tsx 80: authMe().then(setUser).catch(() => setUser(null))
storageSettled(p) ==
  /\ Settles(p) /\ who[p] = "storage"
  /\ Release(p)
  /\ user' = got[p]
  /\ obs' = Obs("storageSettled", Gone)
  /\ UNCHANGED <<store, mounted, runs, isLoading, sched, events>>

tick ==
  /\ Started /\ TaskTurn
  /\ Tick
  /\ obs' = Obs("step", Gone)
  /\ UNCHANGED <<mounted, runs, user, isLoading, sched, who, got, events>>

\* One tab on its own, the provider mounted once: its effect, its login
\* and logout, and its timeouts.
NextCtx ==
  \/ init /\ UNCHANGED ops
  \/ (\E p \in Calls : initSettled(p)) /\ UNCHANGED ops
  \/ (\E p \in Calls : refreshPreAnswered(p)) /\ UNCHANGED ops
  \/ (\E p \in Calls : fetch1Answered(p)) /\ UNCHANGED ops
  \/ (\E p \in Calls : refresh401Answered(p)) /\ UNCHANGED ops
  \/ (\E p \in Calls : fetch2Answered(p)) /\ UNCHANGED ops
  \/ login /\ UNCHANGED ops
  \/ loginSettled /\ UNCHANGED ops
  \/ logout /\ UNCHANGED ops
  \/ logoutSettled /\ UNCHANGED ops
  \/ (\E p \in Calls : \E h \in sched.armed : timerFires(h, p)) /\ UNCHANGED ops
  \/ (\E p \in Calls : timerSettled(p)) /\ UNCHANGED ops
  \/ tick /\ UNCHANGED ops

SpecCtx == Init /\ [][NextCtx]_vars

\* One tab on its own, the provider mounted once: its effect, its logout
\* and its timeouts.
NextTimer ==
  \/ init /\ UNCHANGED ops
  \/ (\E p \in Calls : initSettled(p)) /\ UNCHANGED ops
  \/ (\E p \in Calls : refreshPreAnswered(p)) /\ UNCHANGED ops
  \/ (\E p \in Calls : fetch1Answered(p)) /\ UNCHANGED ops
  \/ (\E p \in Calls : refresh401Answered(p)) /\ UNCHANGED ops
  \/ (\E p \in Calls : fetch2Answered(p)) /\ UNCHANGED ops
  \/ logout /\ UNCHANGED ops
  \/ logoutSettled /\ UNCHANGED ops
  \/ (\E p \in Calls : \E h \in sched.armed : timerFires(h, p)) /\ UNCHANGED ops
  \/ (\E p \in Calls : timerSettled(p)) /\ UNCHANGED ops
  \/ tick /\ UNCHANGED ops

SpecTimer == Init /\ [][NextTimer]_vars

\* One tab on its own, the provider mounted once: its effect, login, signup
\* and logout, the clock and the timeouts that fall due, each running the
\* callback of scheduleRefresh (AuthContext.tsx 44-52).
NextLogin ==
  \/ init /\ UNCHANGED ops
  \/ (\E p \in Calls : initSettled(p)) /\ UNCHANGED ops
  \/ (\E p \in Calls : refreshPreAnswered(p)) /\ UNCHANGED ops
  \/ (\E p \in Calls : fetch1Answered(p)) /\ UNCHANGED ops
  \/ (\E p \in Calls : refresh401Answered(p)) /\ UNCHANGED ops
  \/ (\E p \in Calls : fetch2Answered(p)) /\ UNCHANGED ops
  \/ login /\ UNCHANGED ops
  \/ loginSettled /\ UNCHANGED ops
  \/ signup /\ UNCHANGED ops
  \/ signupSettled /\ UNCHANGED ops
  \/ logout /\ UNCHANGED ops
  \/ logoutSettled /\ UNCHANGED ops
  \/ (\E p \in Calls : \E h \in sched.armed : timerFires(h, p)) /\ UNCHANGED ops
  \/ (\E p \in Calls : timerSettled(p)) /\ UNCHANGED ops
  \/ tick /\ UNCHANGED ops

SpecLogin == Init /\ [][NextLogin]_vars

\* One tab on its own, resuming a session: the calls of the application
\* next to the provider's effect and timeouts.
NextApp ==
  \/ init /\ UNCHANGED ops
  \/ (\E p \in Calls : initSettled(p)) /\ UNCHANGED ops
  \/ (\E p \in Calls : apiCall(p)) /\ UNCHANGED ops
  \/ (\E p \in Calls : apiReturns(p)) /\ UNCHANGED ops
  \/ (\E p \in Calls : refreshPreAnswered(p)) /\ UNCHANGED ops
  \/ (\E p \in Calls : fetch1Answered(p)) /\ UNCHANGED ops
  \/ (\E p \in Calls : refresh401Answered(p)) /\ UNCHANGED ops
  \/ (\E p \in Calls : fetch2Answered(p)) /\ UNCHANGED ops
  \/ (\E p \in Calls : \E h \in sched.armed : timerFires(h, p)) /\ UNCHANGED ops
  \/ (\E p \in Calls : timerSettled(p)) /\ UNCHANGED ops
  \/ tick /\ UNCHANGED ops

SpecApp == Init /\ [][NextApp]_vars

\* One tab on its own, resuming a session: profile updates and logout next
\* to the provider's effect.
NextProfile ==
  \/ init /\ UNCHANGED ops
  \/ (\E p \in Calls : initSettled(p)) /\ UNCHANGED ops
  \/ (\E p \in Calls : updateProfile(p)) /\ UNCHANGED ops
  \/ (\E p \in Calls : profileSettled(p)) /\ UNCHANGED ops
  \/ (\E p \in Calls : refreshPreAnswered(p)) /\ UNCHANGED ops
  \/ (\E p \in Calls : fetch1Answered(p)) /\ UNCHANGED ops
  \/ (\E p \in Calls : refresh401Answered(p)) /\ UNCHANGED ops
  \/ (\E p \in Calls : fetch2Answered(p)) /\ UNCHANGED ops
  \/ logout /\ UNCHANGED ops
  \/ logoutSettled /\ UNCHANGED ops

SpecProfile == Init /\ [][NextProfile]_vars

\* A tab that follows what another tab does to the shared slot, over the
\* time no timeout fires in.
NextTabs ==
  \/ init /\ UNCHANGED ops
  \/ (\E p \in Calls : initSettled(p)) /\ UNCHANGED ops
  \/ (\E p \in Calls : refreshPreAnswered(p)) /\ UNCHANGED ops
  \/ (\E p \in Calls : fetch1Answered(p)) /\ UNCHANGED ops
  \/ (\E p \in Calls : refresh401Answered(p)) /\ UNCHANGED ops
  \/ (\E p \in Calls : fetch2Answered(p)) /\ UNCHANGED ops
  \/ otherTabWrites /\ UNCHANGED ops
  \/ otherTabClears /\ UNCHANGED ops
  \/ onStorage /\ UNCHANGED ops
  \/ (\E p \in Calls : storageSettled(p)) /\ UNCHANGED ops

SpecTabs == Init /\ [][NextTabs]_vars

\* What a tab can find in the slot when it mounts: nothing, text that does
\* not parse, or a JSON record with either token present or missing (the
\* slot is written by earlier visits and is open to anything else running
\* on the origin); getStoredTokens returns whatever parses.
StoredRecords ==
  {Null, Corrupt}
  \cup {[access_token |-> a, refresh_token |-> r, expires_at |-> e * MsPerSec] :
          a \in {NoTok, AccessTok(0)}, r \in {NoTok, RefreshTok(0)},
          e \in ExpiresInChoices}

InitStored ==
  /\ store \in StoredRecords
  /\ now = 0
  /\ issued = 0
  /\ pc = [p \in Calls |-> "idle"]
  /\ req = [p \in Calls |-> NoReq]
  /\ ret = [p \in Calls |-> NoRet]
  /\ hist = [p \in Calls |-> BlankHist]
  /\ apc = NoneAwaiting
  /\ rejected = {}
  /\ ev = NoEv
  /\ mounted = FALSE
  /\ runs = 0
  /\ user = Null
  /\ isLoading = TRUE
  /\ sched = NoSched
  /\ who = [p \in Calls |-> "none"]
  /\ got = [p \in Calls |-> Null]
  /\ events = <<>>
  /\ obs = NoObs
  /\ ops = 0

\* A tab resuming over what it finds in the slot, without a new login.
NextStored ==
  \/ init /\ UNCHANGED ops
  \/ (\E p \in Calls : initSettled(p)) /\ UNCHANGED ops
  \/ (\E p \in Calls : apiCall(p)) /\ UNCHANGED ops
  \/ (\E p \in Calls : apiReturns(p)) /\ UNCHANGED ops
  \/ (\E p \in Calls : refreshPreAnswered(p)) /\ UNCHANGED ops
  \/ (\E p \in Calls : fetch1Answered(p)) /\ UNCHANGED ops
  \/ (\E p \in Calls : refresh401Answered(p)) /\ UNCHANGED ops
  \/ (\E p \in Calls : fetch2Answered(p)) /\ UNCHANGED ops
  \/ (\E p \in Calls : \E h \in sched.armed : timerFires(h, p)) /\ UNCHANGED ops
  \/ (\E p \in Calls : timerSettled(p)) /\ UNCHANGED ops
  \/ tick /\ UNCHANGED ops

SpecStored == InitStored /\ [][NextStored]_vars

\* The calls of auth.ts alone, every request of a call answered in the end
\* (a fetch() resolves or rejects): the answering steps are weakly fair.
NextCall ==
  \/ (\E p \in Calls : CallStart(p)) /\ UNCHANGED cvars
  \/ (\E p \in Calls : RefreshPreResponse(p)) /\ UNCHANGED cvars
  \/ (\E p \in Calls : Fetch1Response(p)) /\ UNCHANGED cvars
  \/ (\E p \in Calls : Refresh401Response(p)) /\ UNCHANGED cvars
  \/ (\E p \in Calls : Fetch2Response(p)) /\ UNCHANGED cvars
  \/ Tick /\ UNCHANGED cvars

EveryRequestAnswered ==
  \A p \in Calls :
     /\ WF_vars(RefreshPreResponse(p) /\ UNCHANGED cvars)
     /\ WF_vars(Fetch1Response(p) /\ UNCHANGED cvars)
     /\ WF_vars(Refresh401Response(p) /\ UNCHANGED cvars)
     /\ WF_vars(Fetch2Response(p) /\ UNCHANGED cvars)

SpecCall == Init /\ [][NextCall]_vars /\ EveryRequestAnswered

\* A tab following another tab that writes the slot and the theme, at one
\* instant of the clock.
NextKeys ==
  \/ init /\ UNCHANGED ops
  \/ (\E p \in Calls : initSettled(p)) /\ UNCHANGED ops
  \/ (\E p \in Calls : refreshPreAnswered(p)) /\ UNCHANGED ops
  \/ (\E p \in Calls : fetch1Answered(p)) /\ UNCHANGED ops
  \/ (\E p \in Calls : refresh401Answered(p)) /\ UNCHANGED ops
  \/ (\E p \in Calls : fetch2Answered(p)) /\ UNCHANGED ops
  \/ otherTabWrites /\ UNCHANGED ops
  \/ otherTabClears /\ UNCHANGED ops
  \/ otherTabSetsTheme /\ UNCHANGED ops
  \/ onStorage /\ UNCHANGED ops
  \/ (\E p \in Calls : storageSettled(p)) /\ UNCHANGED ops

SpecKeys == Init /\ [][NextKeys]_vars

\* The loads of a tab at one instant of the clock: the effect runs, is
\* cleaned up and runs again, and the requests of init()'s authMe() are
\* answered in the end (weak fairness on every step of it).
NextInit ==
  \/ init /\ UNCHANGED ops
  \/ cleanup /\ UNCHANGED ops
  \/ (\E p \in Calls : initSettled(p)) /\ UNCHANGED ops
  \/ (\E p \in Calls : refreshPreAnswered(p)) /\ UNCHANGED ops
  \/ (\E p \in Calls : fetch1Answered(p)) /\ UNCHANGED ops
  \/ (\E p \in Calls : refresh401Answered(p)) /\ UNCHANGED ops
  \/ (\E p \in Calls : fetch2Answered(p)) /\ UNCHANGED ops

\* The effect runs once the provider has rendered (whether it runs again
\* after a cleanup is left open), and every request is answered.
LookupReturns ==
  /\ WF_vars(runs = 0 /\ init /\ UNCHANGED ops)
  /\ \A p \in Calls :
       /\ WF_vars(initSettled(p) /\ UNCHANGED ops)
       /\ WF_vars(refreshPreAnswered(p) /\ UNCHANGED ops)
       /\ WF_vars(fetch1Answered(p) /\ UNCHANGED ops)
       /\ WF_vars(refresh401Answered(p) /\ UNCHANGED ops)
       /\ WF_vars(fetch2Answered(p) /\ UNCHANGED ops)

SpecInit == Init /\ [][NextInit]_vars /\ LookupReturns

\* The user performs one more operation, in this tab's page (a form sent,
\* a button pressed, a query asked) or in another tab: at most MaxOps of
\* them in a behaviour.
UserOp == ops < MaxOps /\ ops' = ops + 1

\* One tab with every path that arms the timer: the effect, login, signup,
\* the timeouts and their callbacks, and the listener following another
\* tab.
NextArm ==
  \/ init /\ UNCHANGED ops
  \/ (\E p \in Calls : initSettled(p)) /\ UNCHANGED ops
  \/ (\E p \in Calls : refreshPreAnswered(p)) /\ UNCHANGED ops
  \/ (\E p \in Calls : fetch1Answered(p)) /\ UNCHANGED ops
  \/ (\E p \in Calls : refresh401Answered(p)) /\ UNCHANGED ops
  \/ (\E p \in Calls : fetch2Answered(p)) /\ UNCHANGED ops
  \/ login /\ UserOp
  \/ loginSettled /\ UNCHANGED ops
  \/ signup /\ UserOp
  \/ signupSettled /\ UNCHANGED ops
  \/ (\E p \in Calls : \E h \in sched.armed : timerFires(h, p))
       /\ UNCHANGED ops
  \/ (\E p \in Calls : timerSettled(p)) /\ UNCHANGED ops
  \/ otherTabWrites /\ UserOp
  \/ otherTabClears /\ UserOp
  \/ onStorage /\ UNCHANGED ops
  \/ (\E p \in Calls : storageSettled(p)) /\ UNCHANGED ops
  \/ tick /\ UNCHANGED ops

SpecArm == Init /\ [][NextArm]_vars

\* One tab with everything that may touch a stored session: the effect,
\* login, logout, profile updates, the calls of the application, the
\* timeouts, and another tab removing the slot.
NextPage ==
  \/ init /\ UNCHANGED ops
  \/ (\E p \in Calls : initSettled(p)) /\ UNCHANGED ops
  \/ (\E p \in Calls : refreshPreAnswered(p)) /\ UNCHANGED ops
  \/ (\E p \in Calls : fetch1Answered(p)) /\ UNCHANGED ops
  \/ (\E p \in Calls : refresh401Answered(p)) /\ UNCHANGED ops
  \/ (\E p \in Calls : fetch2Answered(p)) /\ UNCHANGED ops
  \/ login /\ UserOp
  \/ loginSettled /\ UNCHANGED ops
  \/ logout /\ UserOp
  \/ logoutSettled /\ UNCHANGED ops
  \/ (\E p \in Calls : apiCall(p)) /\ UserOp
  \/ (\E p \in Calls : apiReturns(p)) /\ UNCHANGED ops
  \/ (\E p \in Calls : updateProfile(p)) /\ UserOp
  \/ (\E p \in Calls : profileSettled(p)) /\ UNCHANGED ops
  \/ (\E p \in Calls : \E h \in sched.armed : timerFires(h, p))
       /\ UNCHANGED ops
  \/ (\E p \in Calls : timerSettled(p)) /\ UNCHANGED ops
  \/ otherTabClears /\ UserOp
  \/ onStorage /\ UNCHANGED ops
  \/ tick /\ UNCHANGED ops

SpecPage == Init /\ [][NextPage]_vars


\* ================================================================ claims
\* A Session proper: both tokens present.
IsSession(raw) ==
  /\ raw \notin {Null, Corrupt}
  /\ raw.access_token # NoTok /\ raw.refresh_token # NoTok

Bearer(tok) == [authorization |-> TRUE, bearer |-> tok]
RefreshPcs == {"refresh_pre", "refresh_401"}
Failed == {"rejected", "neterr", "notoken"}

\* Call p's refresh attempt is answered in this step.
RefreshEnds(p) == pc[p] \in RefreshPcs /\ pc'[p] # pc[p]
\* Call p sends a refresh request in this step.
RefreshSent(p) == pc[p] \notin RefreshPcs /\ pc'[p] \in RefreshPcs

\* C1: single flight: calls whose token is expired share one refresh
\* request (never two refresh requests in flight at once), and the calls
\* that waited on it together dispatch with the same refreshed token.
C1_SingleFlight ==
  /\ Cardinality(RefreshInFlight) <= 1
  /\ \A p, q \in Calls :
        (/\ p # q /\ q \in hist[p].ovl
         /\ pc[p] = "fetch1" /\ pc[q] = "fetch1"
         /\ hist[p].preOut = "ok" /\ hist[q].preOut = "ok")
        => req[p].headers = req[q].headers

\* C2: callers whose refresh attempts overlap receive the same outcome:
\* never one success while an overlapping one fails.
C2_SameOutcome ==
  \A p, q \in Calls :
     (/\ p # q /\ q \in hist[p].ovl
      /\ LastRefresh(p) \in {"ok", "rejected", "neterr"}
      /\ LastRefresh(q) \in {"ok", "rejected", "neterr"})
     => LastRefresh(p) = LastRefresh(q)

\* C3: a call dispatches at most twice; the second dispatch follows a 401
\* first response and a successful refresh; the retry's answer, a 401
\* included, ends the call with no further refresh or dispatch.
C3_AtMostOneRetry ==
  \A p \in Calls :
     /\ hist[p].ndisp <= 2
     /\ hist[p].ndisp = 2 => hist[p].res1 = 401 /\ hist[p].r401Out = "ok"
     /\ pc[p] = "fetch2" => hist[p].ndisp = 2
     /\ (pc[p] = "done" /\ ret[p].of = "retry") =>
          /\ hist[p].ndisp = 2
          /\ req[p] = NoReq
          /\ hist[p].nref =
               1 + (IF hist[p].preOut \in {"ok", "rejected", "neterr"}
                    THEN 1 ELSE 0)

C3_Witness ==
  \E p \in Calls :
     pc[p] = "done" /\ ret[p] = [kind |-> "response", of |-> "retry",
                                 status |-> 401]

\* C4 as stated: a call requests at most one refresh.
C4_AtMostOneRefresh == \A p \in Calls : hist[p].nref <= 1

\* C4 amended: a call requests at most two refreshes, at most one before
\* the first dispatch and at most one after a 401 first response.
C4_AtMostTwoRefreshes ==
  \A p \in Calls :
     /\ hist[p].nref <= 2
     /\ hist[p].nref = 2 =>
          /\ hist[p].preOut \in {"ok", "rejected", "neterr"}
          /\ hist[p].res1 = 401
          /\ hist[p].r401Out # "none"
     /\ hist[p].ndisp = 0 => hist[p].nref <= 1

C4_Witness == \E p \in Calls : hist[p].nref = 2 /\ pc[p] = "done"

\* C5: after a 401 first response with a session stored, a successful
\* refresh is followed by exactly one re-dispatch carrying the access token
\* of the Session just stored, and the retry's response is the result; a
\* failed refresh returns the first 401 response with no re-dispatch.
C5_RetryAfter401 ==
  [][\A p \in Calls :
       /\ (RefreshEnds(p) /\ pc[p] = "refresh_401") =>
            IF ev'.op = "refresh"
            THEN /\ pc'[p] = "fetch2"
                 /\ store' = [access_token |-> ev'.data.access_token,
                              refresh_token |-> ev'.data.refresh_token,
                              expires_at |-> now + ev'.data.expires_in * 1000]
                 /\ req'[p] = InputReq(Bearer(ev'.data.access_token))
                 /\ hist'[p].ndisp = hist[p].ndisp + 1
            ELSE /\ pc'[p] = "done"
                 /\ ret'[p] = [kind |-> "response", of |-> "first",
                               status |-> 401]
                 /\ req'[p] = NoReq
                 /\ hist'[p].ndisp = hist[p].ndisp
       /\ (pc[p] = "fetch2" /\ pc'[p] # "fetch2") =>
            pc'[p] = "done" /\ ret'[p].of = "retry"]_vars

C5_Witness ==
  \E p \in Calls :
     /\ pc[p] = "fetch2" /\ ev.op = "refresh"
     /\ req[p] = InputReq(Bearer(store.access_token))

\* C6: with a Session stored, a call requests a refresh before dispatching
\* exactly when now > expires_at - 30 s; otherwise it dispatches with the
\* stored access token and requests no refresh before the dispatch.
C6_Margin ==
  [][\A p \in Calls :
       (pc[p] = "idle" /\ pc'[p] # "idle" /\ IsSession(store)) =>
         IF now > store.expires_at - 30 * 1000
         THEN /\ pc'[p] = "refresh_pre"
              /\ req'[p] = RefreshReq(store.refresh_token)
              /\ hist'[p].ndisp = 0
         ELSE /\ pc'[p] = "fetch1"
              /\ req'[p] = InputReq(Bearer(store.access_token))
              /\ hist'[p].nref = 0]_vars

\* A refresh requested inside the margin, before the raw expiry.
C6_Witness ==
  \E p \in Calls :
     /\ pc[p] = "refresh_pre" /\ IsSession(store)
     /\ req[p] = RefreshReq(store.refresh_token)
     /\ now > store.expires_at - 30 * 1000
     /\ now <= store.expires_at

\* C7 as stated: after a failed refresh before the dispatch, the call
\* dispatches exactly once, without credential, and does not fail.
C7_ExactlyOneDispatch ==
  \A p \in Calls :
     hist[p].preOut \in Failed =>
       /\ hist[p].ndisp = 1
       /\ pc[p] = "fetch1" => req[p] = InputReq(NoAuth)
       /\ pc[p] = "done" => ret[p].of # "refresh"

\* C7 amended: when the refresh before the dispatch fails (rejected, network
\* error, no refresh token), the call at once dispatches its request without
\* Authorization and the failure is not raised; a second dispatch happens
\* only as the retry after a 401 and a successful refresh.
C7_DispatchUnauthenticated ==
  [][\A p \in Calls :
       /\ (hist'[p].preOut \in Failed /\ hist[p].preOut \notin Failed) =>
            /\ pc'[p] = "fetch1"
            /\ req'[p] = InputReq(NoAuth)
            /\ hist'[p].ndisp = 1
       /\ (hist'[p].preOut \in Failed /\ hist'[p].ndisp # 1) =>
            /\ hist'[p].ndisp = 2
            /\ hist'[p].res1 = 401
            /\ hist'[p].r401Out = "ok"
       /\ (hist'[p].preOut \in Failed /\ pc'[p] = "done") =>
            ret'[p].of \in {"first", "retry"}]_vars

C7_Witness ==
  \E p, q \in Calls :
     /\ pc[p] = "fetch1" /\ hist[p].preOut = "neterr" /\ req[p] = InputReq(NoAuth)
     /\ hist[q].preOut \in {"rejected", "notoken"} /\ hist[q].ndisp = 1

\* C8: a rejected refresh clears the slot and fails to its caller, and the
\* rejected refresh token is never sent to the refresh endpoint again.
C8_RejectionTerminal ==
  [][\A p \in Calls :
       /\ (RefreshEnds(p) /\ LastRefresh(p)' = "rejected") =>
            /\ store' = Null
            /\ req[p].refresh_token \in rejected'
            /\ pc[p] = "refresh_pre" => req'[p] = InputReq(NoAuth)
            /\ pc[p] = "refresh_401" =>
                 pc'[p] = "done" /\ ret'[p].of = "first"
       /\ RefreshSent(p) =>
            /\ req'[p].url = "refresh"
            /\ req'[p].refresh_token \notin rejected]_vars

\* A refresh request sent after another refresh token was rejected.
C8_Witness ==
  \E p \in Calls :
     /\ rejected # {} /\ pc[p] \in RefreshPcs
     /\ \A q \in Calls : q # p => pc[q] \notin RefreshPcs
     /\ hist[p].ovl = {}

\* C9: a refresh that ends in a network failure leaves the slot exactly as
\* it was, so the next refresh sends the refresh token still stored.
C9_NetworkErrorFrame ==
  [][\A p \in Calls :
       (RefreshEnds(p) /\ LastRefresh(p)' = "neterr") =>
         /\ store' = store
         /\ rejected' = rejected
         /\ IsSession(store') =>
              doRefreshRequest(store') = RefreshReq(store.refresh_token)]_vars

\* After a network failure of the refresh before the dispatch, the refresh
\* after the 401 sends the refresh token that is still stored.
C9_Witness ==
  \E p \in Calls :
     /\ IsSession(store)
     /\ pc[p] = "refresh_401" /\ hist[p].preOut = "neterr"
     /\ req[p] = RefreshReq(store.refresh_token)

\* C10: right after a successful login, registration or refresh the slot
\* holds exactly the tokens of that response and expires_at = clock at
\* receipt + expires_in seconds; nothing of the previous record remains.
C10_StoreIsResponse ==
  ev # NoEv =>
    store = [access_token |-> ev.data.access_token,
             refresh_token |-> ev.data.refresh_token,
             expires_at |-> now + ev.data.expires_in * 1000]

\* A registration answered after the clock moved wrote its record over the
\* one an earlier login or refresh had written.
C10_Witness ==
  /\ ev # NoEv /\ ev.op = "register" /\ now > 0
  /\ store.access_token = AccessTok(2)


\* ------------------------------------------------- claims on the provider
\* No operation of the provider's tab is in progress.
Quiet ==
  /\ mounted /\ apc = NoneAwaiting /\ events = <<>>
  /\ \A p \in Calls : pc[p] = "idle"

\* C11: after the server rejected a refresh, and until a login or signup
\* succeeds, the tab comes to rest with the slot empty and no user, and a
\* timeout that fires requests no refresh.
C11_ForcedLogout ==
  Gone = "rejected" =>
    /\ Quiet => store = Null /\ user = Null
    /\ obs.op = "fire" =>
         \A p \in Calls : who[p] = "timer" => pc[p] \notin RefreshPcs

\* C12: at rest, a user is held only together with a stored record.
C12_IdentityHasSession ==
  (Quiet /\ user # Null) => getStoredTokens(store) # Null

\* C13: after logout() has completed, and until a login, a signup or a
\* storage event announcing a new record, no timeout is pending and no
\* timeout callback runs.
C13_NoTimerAfterLogout ==
  Gone = "logout" => sched.armed = {} /\ obs.op # "fire"

\* C14: a timeout callback that starts with the slot empty sends no
\* request.  (Right after the callback started, the slot is empty exactly
\* when it was empty for the callback.)
C14_NoRequestWithoutSession ==
  (obs.op = "fire" /\ store = Null) =>
    \A p \in Calls : who[p] = "timer" => req[p] = NoReq

\* C15: whatever the timer was before (armed, fired, already cancelled,
\* never set), after logout() cancelled it no timeout is pending and
\* refreshTimer.current is null.
C15_CancelIdempotent ==
  obs.op = "logoutSettled" => sched = NoSched

\* A logout right after a logout that cancelled a timer.
C15_Witness ==
  obs.op = "logoutSettled" /\ obs.pre = "cancelled" /\ sched = NoSched

\* The steps that end with scheduleRefresh().
Scheduling ==
  {"initSettled", "loginSettled", "signupSettled", "timerSettled",
   "timerFailed", "onStorageSet"}

\* C16: a timeout set for the stored record waits expires_at - now - 30 s,
\* and 5 s when that is less; a record with expires_in = 100 s gets 70 s;
\* and no timeout runs before its delay has passed.
C16_Delay ==
  /\ (obs.op \in Scheduling /\ sched.current # NoHandle) =>
       LET d == store.expires_at - now - 30000 IN
       /\ sched.current.at = now
       /\ sched.current.delay = (IF d > 5000 THEN d ELSE 5000)
       /\ sched.current \in sched.armed
  /\ obs.op = "fire" =>
       /\ sched.current # NoHandle
       /\ now >= sched.current.at + sched.current.delay
  /\ msUntil(setStoredTokens(TokenResponse(issued, 100), now), now) = 70000

\* A timeout set for a record already inside the 30 s, by the callback of
\* the timeout before it.
C16_Witness ==
  /\ obs.op = "timerSettled" /\ sched.current # NoHandle
  /\ store.expires_at - now < 30000
  /\ sched.current.delay = 5000

\* C17: when authMe() of the timeout callback has settled, resolved or
\* rejected, exactly one timeout is pending, set for the record in the slot
\* at that moment; with the slot empty none is pending.
C17_Rearm ==
  obs.op \in {"timerSettled", "timerFailed"} =>
    IF getStoredTokens(store) = Null
    THEN sched = NoSched
    ELSE /\ sched.current = Handle(now, msUntil(store, now))
         /\ sched.armed = {sched.current}

\* The callback's authMe() failed and the session is still stored.
C17_Witness ==
  /\ obs.op = "timerFailed" /\ IsSession(store)
  /\ sched.armed = {Handle(now, msUntil(store, now))}

\* C18: with the tab at rest and a session in the slot that this tab wrote
\* (by login, signup or the refresh of any call; pair 0 is the one found at
\* mount), the pending timeout is the one set from that session: its
\* deadline is expires_at - 30 s, or 5 s after it was set if that is later.
C18_RescheduledOnUpdate ==
  (/\ Quiet /\ Gone = "no"
   /\ IsSession(store) /\ store.access_token # AccessTok(0)) =>
    /\ sched.current # NoHandle
    /\ sched.armed = {sched.current}
    /\ sched.current.delay = msUntil(store, sched.current.at)

\* C19: handling a storage event that announces a new record, the tab
\* sends no login or register request; it starts authMe(), whose request
\* carries the access token of the record in the slot (or is the refresh of
\* that record, if it is inside the margin); it leaves exactly one timeout
\* pending, set from that record; and when the lookup settles, the user is
\* the one the lookup answered with (none if it failed).
C19_NewSessionPropagates ==
  [][/\ (events # <<>> /\ Head(events) = "set" /\ events' = <<>>) =>
          /\ apc' = apc
          /\ \E p \in Calls :
               /\ who[p] = "none" /\ who'[p] = "storage"
               /\ IsSession(store) =>
                    IF now > store.expires_at - 30000
                    THEN req'[p] = RefreshReq(store.refresh_token)
                    ELSE req'[p] = InputReq(Bearer(store.access_token))
          /\ IsSession(store) =>
               LET d == store.expires_at - now - 30000
                   h == Handle(now, IF d > 5000 THEN d ELSE 5000)
               IN sched' = [current |-> h, armed |-> {h}]
     /\ \A p \in Calls :
          (who[p] = "storage" /\ who'[p] = "none") => user' = got[p]
     /\ \A p \in Calls :
          (who[p] = "storage" /\ got[p] = Null /\ got'[p] # Null) =>
            /\ req[p].url = "input" /\ req[p].headers.authorization
            /\ got'[p] = UserPublic(req[p].headers.bearer[2])]_vars

\* The tab holds the user of the session the other tab wrote.
C19_Witness ==
  /\ obs.op = "storageSettled" /\ IsSession(store)
  /\ store.access_token # AccessTok(0)
  /\ user = UserPublic(store.access_token[2])

\* C20: after the listener handled a storage event announcing that the
\* record was removed, and until a storage event announces a new one, the
\* tab has no user and no pending timeout.
C20_ClearPropagates ==
  Gone = "cleared" => user = Null /\ sched.armed = {}

\* C22: when the server answers login or register with a non-success
\* status, the slot, the user and the timer stay exactly as they were, and
\* login()/signup() rejects with the text of the answer's body.
C22_FailedLoginFrame ==
  [][(/\ \E op \in {"login", "register"} : apc'[op] < apc[op]
      /\ obs'.op = "threw" /\ obs'.answer.kind = "http") =>
       /\ store' = store /\ user' = user /\ sched' = sched
       /\ obs'.answer.status \notin 200..299
       /\ obs'.error # "fetch failed"
       /\ obs'.error \in {"detail", "Login failed", "Register failed"}
       /\ obs'.error = "Login failed" => apc'["login"] < apc["login"]
       /\ obs'.error = "Register failed" =>
            apc'["register"] < apc["register"]]_vars

\* A login refused with a message while a session is held and its timeout
\* is pending.
C22_Witness ==
  /\ obs.op = "threw" /\ obs.of = "login" /\ obs.answer = Http(401)
  /\ obs.error = "detail"
  /\ IsSession(store) /\ user # Null /\ sched.armed # {}

\* C23: right after a successful login or signup the slot holds the record
\* of the response, the user is the user of that same response, and exactly
\* one timeout is pending, set from the new record, whatever the timer was
\* before.
C23_LoginEstablishes ==
  obs.op \in {"loginSettled", "signupSettled"} =>
    /\ ev # NoEv /\ ev.op \in {"login", "register"}
    /\ store = [access_token |-> ev.data.access_token,
                refresh_token |-> ev.data.refresh_token,
                expires_at |-> now + ev.data.expires_in * 1000]
    /\ user = ev.data.user
    /\ LET d == store.expires_at - now - 30000
           h == [at |-> now, delay |-> IF d > 5000 THEN d ELSE 5000]
       IN sched = [current |-> h, armed |-> {h}]

\* A login while the timeout of the session before was pending.
C23_Witness ==
  /\ obs.op = "loginSettled" /\ obs.pre = "armed"
  /\ user = UserPublic(2) /\ store.access_token = AccessTok(2)
  /\ Cardinality(sched.armed) = 1

\* C24: whatever the logout request ends with (ack, error status, network
\* failure), when logout() completes the slot is empty, there is no user
\* and no timeout is pending; and a logout request is sent only when a
\* refresh token is stored: with nothing stored logout() completes at once.
C24_LogoutBestEffort ==
  [][/\ apc'["logout"] < apc["logout"] =>
          /\ obs'.op = "logoutSettled"
          /\ obs'.answer \in {NetErr, Http(200), Http(401), Http(500)}
     /\ obs'.op = "logoutSettled" =>
          /\ apc'["logout"] <= apc["logout"]
          /\ store' = Null /\ user' = Null
          /\ sched' = [current |-> NoHandle, armed |-> {}]
     /\ apc'["logout"] > apc["logout"] =>
          /\ store \notin {Null, Corrupt}
          /\ store.refresh_token # NoTok
     /\ (apc' = apc /\ obs'.op = "logoutSettled") =>
          \/ store \in {Null, Corrupt}
          \/ store.refresh_token = NoTok]_vars

\* logout() completed after its request failed on the network, with a user
\* held and a timeout pending until then.
C24_Witness ==
  /\ obs.op = "logoutSettled" /\ obs.answer = NetErr /\ obs.pre = "armed"
  /\ store = Null /\ user = Null /\ sched = NoSched

\* C25: text in the slot that does not parse reads as no session, without
\* an error, and the read leaves the slot empty; whatever reads it does what
\* it does with an empty slot: a call dispatches at once without
\* Authorization and without a refresh, logout sends no request.
C25_CorruptIsAbsent ==
  [][store = Corrupt =>
       /\ getStoredTokens(store) = Null
       /\ \A p \in Calls : pc[p] = "idle"
       /\ \A p \in Calls :
            pc'[p] # "idle" =>
              /\ store' = Null
              /\ pc'[p] = "fetch1" /\ ret'[p] = NoRet
              /\ req'[p] = InputReq(NoAuth)
              /\ hist'[p].nref = 0 /\ hist'[p].preOut = "none"
       /\ apc'["logout"] = 0
       /\ (apc' = apc /\ pc' = pc /\ now' = now) =>
            store' = Null
       /\ \/ store' \in {Corrupt, Null}
          \/ ev' # NoEv /\ ev'.op \in {"login", "register"}]_vars

\* Where the read of unparsable text leads: both calls in flight without
\* credential over an empty slot, nothing issued, rejected or logged out
\* (the state an empty slot leads to as well).
C25_Witness ==
  /\ store = Null /\ issued = 0 /\ rejected = {} /\ apc = NoneAwaiting /\ now = 0
  /\ \A p \in Calls :
       /\ pc[p] = "fetch1" /\ req[p] = InputReq(NoAuth)
       /\ hist[p].preOut = "none"

\* A stored record with exactly one of the two tokens.
Partial(raw) ==
  /\ raw \notin {Null, Corrupt}
  /\ (raw.access_token = NoTok) # (raw.refresh_token = NoTok)

\* C26: while the slot holds a record with only one of the two tokens, no
\* request in flight carries an Authorization header, no refresh request is
\* in flight, and no timeout is pending.
C26_PartialIsNoSession ==
  Partial(store) =>
    /\ \A p \in Calls : req[p].url = "input" => ~req[p].headers.authorization
    /\ \A p \in Calls : req[p].url # "refresh"
    /\ sched.armed = {}

\* C27: when the retry after a refresh is answered 401, that response is
\* the call's result, nothing more is sent, and the slot stays as it is;
\* no answer to a caller's own request (first dispatch or retry) empties a
\* slot that holds a record.
C27_UnauthorizedKeepsSession ==
  [][\A p \in Calls :
       /\ (pc[p] = "fetch2" /\ pc'[p] # "fetch2") =>
            /\ pc'[p] = "done" /\ req'[p] = NoReq
            /\ ret'[p].of = "retry"
            /\ hist'[p] = hist[p]
            /\ store' = store /\ rejected' = rejected
       /\ (pc[p] \in {"fetch1", "fetch2"} /\ pc'[p] # pc[p]
           /\ getStoredTokens(store) # Null) => store' = store]_vars

\* The only call made refreshed after its first 401, was answered 401
\* again, and the session its refresh stored is in the slot.
C27_Witness ==
  \E p \in Calls :
     /\ pc[p] = "done"
     /\ ret[p] = [kind |-> "response", of |-> "retry", status |-> 401]
     /\ hist[p].r401Out = "ok"
     /\ \A q \in Calls : q # p => pc[q] = "idle" /\ hist[q] = BlankHist
     /\ issued = 1 /\ apc = NoneAwaiting
     /\ IsSession(store) /\ store.access_token = AccessTok(1)

\* C28: a slot holding a session becomes empty only when logout()
\* completes, when a refresh request is answered with a non-success status,
\* or when another tab changed it; every other change of it is the write of
\* the whole record of a login, registration or refresh answer (or another
\* tab's write).  Failed logins, network errors, profile updates, timeouts
\* and the answers to ordinary calls leave it as it is.
C28_SessionEnds ==
  [][(IsSession(store) /\ store' # store) =>
       \/ /\ store' = Null
          /\ \/ apc'["logout"] < apc["logout"]
             \/ \E p \in Calls :
                  /\ RefreshEnds(p) /\ ev' = NoEv
                  /\ req[p].refresh_token \in rejected'
             \/ Len(events') > Len(events)
       \/ /\ ev' # NoEv
          /\ ev'.op \in {"login", "register", "refresh"}
          /\ store' = [access_token |-> ev'.data.access_token,
                       refresh_token |-> ev'.data.refresh_token,
                       expires_at |-> now + ev'.data.expires_in * 1000]
          /\ store'.access_token # store.access_token
          /\ store'.refresh_token # store.refresh_token
       \/ /\ IsSession(store') /\ Len(events') > Len(events)]_vars

\* The session was ended by the rejected refresh of a timeout's callback
\* while a profile update is in flight.
C28_Witness ==
  /\ store = Null /\ Gone = "rejected"
  /\ \E p \in Calls : who[p] = "timer" /\ LastRefresh(p) = "rejected"
  /\ \E q \in Calls : who[q] = "profile" /\ pc[q] # "done"

\* C29: when a refresh request is rejected that was sent with the refresh
\* token an overlapping, successful refresh has meanwhile replaced, the
\* newer session that refresh stored stays in the slot.
C29_RotationSafe ==
  [][\A q \in Calls :
       (/\ RefreshEnds(q) /\ LastRefresh(q)' = "rejected"
        /\ IsSession(store)
        /\ req[q].refresh_token # store.refresh_token
        /\ \E p \in hist[q].ovl :
             LastRefresh(p) = "ok" /\ pc[p] \notin RefreshPcs)
       => store' = store]_vars

\* C30: after logout() has completed, and until a login or signup
\* succeeds, the slot is empty: nothing that was in progress writes a
\* record into it.
C30_NoWriteBack ==
  Gone = "logout" => store = Null

\* C31: at most one timeout is pending in a tab, and it is the one
\* refreshTimer.current refers to: every scheduleRefresh() cancels the
\* handle it finds, also while the callback of a timeout that has fired is
\* still awaiting authMe().
C31_AtMostOneTimer ==
  /\ Cardinality(sched.armed) <= 1
  /\ sched.armed \subseteq {sched.current}

\* A login re-armed the timer over the handle of a timeout that has fired
\* and whose callback is still awaiting authMe().
C31_Witness ==
  /\ obs.op = "loginSettled" /\ obs.pre = "fired"
  /\ Cardinality(sched.armed) = 1
  /\ \E p \in Calls : who[p] = "timer" /\ pc[p] # "done"

\* C32: once init() has finished, with no logout since, whenever the slot
\* holds a session either a timeout is pending or the callback of a
\* timeout is running.
C32_KeepWarm ==
  (mounted /\ ~isLoading /\ Gone # "logout" /\ IsSession(store)) =>
    \/ sched.armed # {}
    \/ \E p \in Calls : who[p] = "timer"

\* C33: doRefresh empties the slot exactly when the refresh endpoint
\* answers with a non-success status (a 401 as much as a 500); it writes the
\* record of a success, leaves the slot alone when the request fails on the
\* network, and with no refresh token stored sends no request and leaves
\* the slot alone.
C33_RefreshClearsOnStatus ==
  [][/\ doRefreshStore(store, Http(401), now) = Null
     /\ doRefreshStore(store, Http(500), now) = Null
     /\ doRefreshStore(store, NetErr, now) = store
     /\ \A p \in Calls :
          /\ RefreshEnds(p) =>
               /\ LastRefresh(p)' \in {"ok", "rejected", "neterr"}
               /\ LastRefresh(p)' = "rejected" => store' = Null
               /\ LastRefresh(p)' = "neterr" => store' = store
               /\ LastRefresh(p)' = "ok" =>
                    /\ ev' # NoEv
                    /\ store' = [access_token |-> ev'.data.access_token,
                                 refresh_token |-> ev'.data.refresh_token,
                                 expires_at |-> now + ev'.data.expires_in * 1000]
          /\ RefreshSent(p) =>
               /\ store \notin {Null, Corrupt}
               /\ store.refresh_token # NoTok
               /\ req'[p] = RefreshReq(store.refresh_token)
               /\ store' = store
          /\ (hist'[p].preOut = "notoken" /\ hist[p].preOut # "notoken") =>
               /\ store \notin {Null, Corrupt}
               /\ store.refresh_token = NoTok
               /\ store' = store
               /\ req'[p].url # "refresh" /\ hist'[p].nref = 0]_vars

\* A call whose refresh failed on the network, leaving the session, and
\* whose next refresh was rejected, emptying the slot.
C33_Witness ==
  /\ store = Null /\ issued = 0 /\ apc = NoneAwaiting /\ rejected # {}
  /\ \E p \in Calls :
       /\ pc[p] = "done"
       /\ hist[p].preOut = "neterr" /\ hist[p].r401Out = "rejected"

\* C34: the first dispatch of a call carries the stored access token only
\* if now <= expires_at - 30 s when the call read it; a call that found the
\* token inside the margin dispatches with the access token of the refresh
\* answer, never with the one it found, or with none; so does its retry.
C34_NoTokenInsideMargin ==
  [][\A p \in Calls :
       /\ (pc[p] = "idle" /\ pc'[p] = "fetch1"
           /\ req'[p].headers.authorization) =>
            /\ store \notin {Null, Corrupt}
            /\ req'[p].headers.bearer = store.access_token
            /\ now <= store.expires_at - 30 * 1000
       /\ (pc[p] = "idle" /\ pc'[p] # "idle" /\ store \notin {Null, Corrupt}
           /\ now > store.expires_at - 30 * 1000) =>
            \/ pc'[p] = "refresh_pre"
            \/ pc'[p] = "fetch1" /\ req'[p] = InputReq(NoAuth)
       /\ (pc[p] \in RefreshPcs /\ pc'[p] \in {"fetch1", "fetch2"}) =>
            IF ev' # NoEv
            THEN /\ req'[p] = InputReq(Bearer(ev'.data.access_token))
                 /\ req'[p].headers.bearer[2] # req[p].refresh_token[2]
            ELSE req'[p] = InputReq(NoAuth)]_vars

\* A call that found the token inside the margin (not yet expired) is in
\* flight with the access token its refresh returned.
C34_Witness ==
  \E p \in Calls :
     /\ now = 0 /\ pc[p] = "fetch1" /\ hist[p].preOut = "ok"
     /\ req[p] = InputReq(Bearer(AccessTok(1)))
     /\ IsSession(store) /\ store.access_token = AccessTok(1)

\* How far a call has come: authorizedRequest only moves forward.
Rank(at) ==
  CASE at = "idle" -> 0
    [] at = "refresh_pre" -> 1
    [] at = "fetch1" -> 2
    [] at = "refresh_401" -> 3
    [] at = "fetch2" -> 4
    [] at = "done" -> 5

\* C35: a call sends at most two refresh requests and dispatches at most
\* twice (four requests at most), never goes back to an earlier point of
\* authorizedRequest, and, every request being answered in the end, ends
\* with a response or an error.
C35_Terminates ==
  /\ [](\A p \in Calls :
          /\ hist[p].nref <= 2 /\ hist[p].ndisp <= 2
          /\ hist[p].nref + hist[p].ndisp <= 4
          /\ pc[p] = "done" => ret[p].kind \in {"response", "throw"})
  /\ [][\A p \in Calls :
          pc'[p] # pc[p] =>
            /\ Rank(pc'[p]) > Rank(pc[p])
            /\ hist'[p].nref + hist'[p].ndisp <=
                 hist[p].nref + hist[p].ndisp + 1]_vars
  /\ \A p \in Calls : (pc[p] # "idle") ~> (pc[p] = "done")

\* A call that ended after four requests.
C35_Witness ==
  \E p \in Calls :
     /\ pc[p] = "done" /\ ret[p].kind = "response"
     /\ hist[p].nref = 2 /\ hist[p].ndisp = 2

\* C36: every load (the effect's first run, and a run after a cleanup) ends
\* with isLoading false on every path, the lookup's requests being answered
\* in the end: at once, with no request and no user, when getStoredTokens()
\* finds nothing; otherwise when authMe() has settled, resolved or rejected;
\* and the provider is loading only until then.
C36_InitFinishes ==
  /\ isLoading ~> ~isLoading
  /\ [](isLoading => runs = 0 \/ \E p \in Calls : who[p] = "init")
  /\ [][/\ (~mounted /\ mounted' /\ store \in {Null, Corrupt}) =>
            /\ ~isLoading' /\ user' = Null
            /\ pc' = pc /\ req' = req /\ who' = who
       /\ (~mounted /\ mounted' /\ store \notin {Null, Corrupt}) =>
            /\ isLoading'
            /\ \E p \in Calls :
                 who[p] = "none" /\ who'[p] = "init" /\ req'[p] # NoReq
       /\ \A p \in Calls :
            (who[p] = "init" /\ who'[p] = "none") =>
              /\ ~isLoading'
              /\ user' = got[p]]_vars

\* The initial load ended after a lookup that failed, the session still in
\* the slot.
C36_Witness ==
  /\ mounted /\ ~isLoading /\ user = Null /\ IsSession(store)
  /\ runs = 1
  /\ \A p \in Calls : who[p] = "none"

\* C37: a storage event for a key other than 'ptl_tokens' is taken off by
\* the listener with the user, the timer and the slot unchanged, and with
\* no call started and no request written.
C37_OtherKeysIgnored ==
  [][(/\ events # <<>>
      /\ Head(events) = "theme"
      /\ events' = Tail(events)) =>
       /\ UNCHANGED <<user, sched, store>>
       /\ UNCHANGED <<pc, req, ret, hist, who, got, issued, isLoading>>]_vars

\* The listener has just returned from a 'theme' event in a tab that holds
\* a user, an armed timer and a stored session.
C37_Witness ==
  /\ obs.op = "onStorageOther"
  /\ user # Null /\ sched.armed # {} /\ IsSession(store)
  /\ events = <<>>

====
